---- MODULE Spec2Model ----
(***************************************************************************)
(* Model of the rigging operators of mets_tools:                           *)
(*   src/bone_parenting_ops.py  disconnect / unparent / delete / parent    *)
(*   src/symmetrize.py          symmetrize, mirror_constraint,             *)
(*                              mirror_drivers                             *)
(* Every operator is one action that runs the whole execute() of the       *)
(* operator on a rig drawn by Init.  Names are sequences of tokens so that *)
(* flip_name, startswith and the substring tests of the code are computed  *)
(* and not assumed.                                                        *)
(***************************************************************************)
EXTENDS Integers, Sequences, FiniteSets, TLC

VARIABLES
    edit_bones,    \* names of the bones of the armature
    parent,        \* bone name -> name of its parent, or None
    use_connect,   \* bone name -> connected to its parent
    selected,      \* the selected bones, in the order the host lists them
    active,        \* the active bone, or None
    use_mirror_x,  \* rig.data.use_mirror_x
    mode,          \* rig.mode
    constraints,   \* bone name -> its constraint stack
    drivers,       \* armature.animation_data.drivers
    fcurves,       \* action.fcurves of the one action of the rig
    collections,   \* bone name -> names of the bone collections it is in
    ret,           \* what the last operator returned and reported
    pre,           \* the rig as it was when the operator was invoked
    after_removal  \* Symmetrize: constraints and drivers once the loop at lines 67-69 is over

vars == <<edit_bones, parent, use_connect, selected, active, use_mirror_x, mode,
          constraints, drivers, fcurves, collections, ret, pre, after_removal>>

(***************************************************************************)
(* Bounds                                                                  *)
(***************************************************************************)
MaxBones == 3

MaxCurves == 3

MaxSymBones == 4

(***************************************************************************)
(* Names                                                                   *)
(***************************************************************************)
None == <<>>

HandL == <<"Hand", ".L">>

HandR == <<"Hand", ".R">>

Spine == <<"Spine">>

ArmL == <<"Arm", ".L">>

ArmR == <<"Arm", ".R">>

AllBones == <<HandL, HandR, Spine, ArmL, ArmR, <<"Root">> >>

Min(a, b) == IF a < b THEN a ELSE b

BoneOrder == SubSeq(AllBones, 1, Min(MaxBones, Len(AllBones)))

Range(s) == {s[i] : i \in DOMAIN s}

BoneNames == Range(BoneOrder)

IsNumberSuffix(tok) == tok \in {".001", ".002"}

\* bpy.utils.flip_name: swaps the side token of a name; a trailing number
\* suffix is kept ("Arm.L.001" -> "Arm.R.001"); other names are returned as is.
flip_name(name) ==
    LET n == Len(name)
        i == IF n >= 1 /\ IsNumberSuffix(name[n]) THEN n - 1 ELSE n
    IN  IF i < 2 THEN name
        ELSE IF name[i] = ".L" THEN [name EXCEPT ![i] = ".R"]
        ELSE IF name[i] = ".R" THEN [name EXCEPT ![i] = ".L"]
        ELSE name

\* The subsequences of s (order kept): the selections the host can list.
RECURSIVE SubSeqsOf(_)
SubSeqsOf(s) ==
    IF s = <<>> THEN {<<>>}
    ELSE LET rest == SubSeqsOf(Tail(s))
         IN  rest \cup {<<Head(s)>> \o r : r \in rest}

\* The elements of s that satisfy keep, in order.
RECURSIVE SelectIn(_, _)
SelectIn(s, keep) ==
    IF s = <<>> THEN <<>>
    ELSE IF Head(s) \in keep THEN <<Head(s)>> \o SelectIn(Tail(s), keep)
    ELSE SelectIn(Tail(s), keep)

\* list.remove(x): drops the first occurrence of x.
RECURSIVE RemoveFirst(_, _)
RemoveFirst(s, x) ==
    IF s = <<>> THEN <<>>
    ELSE IF Head(s) = x THEN Tail(s)
    ELSE <<Head(s)>> \o RemoveFirst(Tail(s), x)

Count(s, x) == Cardinality({i \in DOMAIN s : s[i] = x})

(***************************************************************************)
(* Bone hierarchy (host data model)                                        *)
(***************************************************************************)
RECURSIVE IsAncestor(_, _, _, _)
\* a is b's parent, grandparent, ... in par (fuel bounds the walk)
IsAncestor(par, a, b, fuel) ==
    IF fuel = 0 \/ b \notin DOMAIN par \/ par[b] = None THEN FALSE
    ELSE par[b] = a \/ IsAncestor(par, a, par[b], fuel - 1)

Acyclic(bs, par) == \A b \in bs : ~IsAncestor(par, b, b, Cardinality(bs))

\* The armature as the edit-bone operators see it.
Armature == [bones |-> edit_bones, parent |-> parent, connect |-> use_connect]

\* eb.parent = None (the host drops the connected flag with the parent)
ClearParent(arm, b) ==
    [arm EXCEPT !.parent[b] = None, !.connect[b] = FALSE]

\* eb.parent = p: the host ignores an assignment that would close a loop.
SetParent(arm, b, p) ==
    IF p = None THEN ClearParent(arm, b)
    ELSE IF p = b \/ IsAncestor(arm.parent, b, p, Cardinality(arm.bones)) THEN arm
    ELSE [arm EXCEPT !.parent[b] = p]

\* edit_bones.remove(eb): the bone goes, its children become roots.
RemoveBone(arm, b) ==
    LET left == arm.bones \ {b}
    IN  [bones   |-> left,
         parent  |-> [x \in left |-> IF arm.parent[x] = b THEN None ELSE arm.parent[x]],
         connect |-> [x \in left |-> IF arm.parent[x] = b THEN FALSE ELSE arm.connect[x]]]

(***************************************************************************)
(* bone_parenting_ops.py                                                   *)
(***************************************************************************)
\* get_active_bone
get_active_bone == active

\* get_selected_bones(context, exclude_active): the selected bones; with
\* exclude_active the active bone is removed from the list, which raises
\* ValueError when it is not in it.
get_selected_bones(exclude_active) ==
    IF exclude_active THEN RemoveFirst(selected, get_active_bone) ELSE selected

ExcludeActiveRaises == get_active_bone \notin Range(selected)

\* GenericBoneOperator.poll
GenericPoll == mode \in {"POSE", "EDIT"}

\* affect_bones, lines 68-76: with X-mirror the existing flipped counterpart
\* of every selected bone is appended to the list of names.
RECURSIVE MirrorNames(_, _)
MirrorNames(names, todo) ==
    IF todo = <<>> THEN names
    ELSE LET bone_name == Head(todo)
             flipped_name == flip_name(bone_name)
         IN  IF bone_name = flipped_name THEN MirrorNames(names, Tail(todo))
             ELSE IF flipped_name \notin edit_bones THEN MirrorNames(names, Tail(todo))
             ELSE MirrorNames(Append(names, flipped_name), Tail(todo))

BoneNamesToAffect ==
    LET bone_names == get_selected_bones(FALSE)
    IN  IF use_mirror_x THEN MirrorNames(bone_names, bone_names) ELSE bone_names

\* POSE_OT_disconnect_bones.affect_bone
DisconnectAffectBone(arm, eb) ==
    IF arm.parent[eb] # None
    THEN [arm |-> ClearParent(arm, eb), was_affected |-> TRUE]
    ELSE [arm |-> arm, was_affected |-> FALSE]

\* Mutation of UnparentAffectBone: reports every bone as affected.
UnparentAffectBoneAlways(arm, eb) ==
    [arm |-> ClearParent(arm, eb), was_affected |-> TRUE]

\* POSE_OT_unparent_bones.affect_bone
UnparentAffectBone(arm, eb) ==
    IF arm.parent[eb] # None
    THEN [arm |-> ClearParent(arm, eb), was_affected |-> TRUE]
    ELSE [arm |-> arm, was_affected |-> FALSE]

\* POSE_OT_delete_bones.affect_bone
DeleteAffectBone(arm, eb) ==
    [arm |-> RemoveBone(arm, eb), was_affected |-> TRUE]

affect_bone(op, arm, eb) ==
    CASE op = "disconnect" -> DisconnectAffectBone(arm, eb)
      [] op = "unparent"   -> UnparentAffectBone(arm, eb)
      [] op = "delete"     -> DeleteAffectBone(arm, eb)

\* affect_bones, lines 78-83: edit_bones[bone_name] raises KeyError for a
\* name that is no longer a bone; the loop stops there.
RECURSIVE AffectLoop(_, _, _, _)
AffectLoop(op, names, arm, affected) ==
    IF names = <<>> THEN [arm |-> arm, affected |-> affected, raised |-> FALSE]
    ELSE IF Head(names) \notin arm.bones
         THEN [arm |-> arm, affected |-> affected, raised |-> TRUE]
    ELSE LET r == affect_bone(op, arm, Head(names))
         IN  AffectLoop(op, Tail(names), r.arm,
                        IF r.was_affected THEN Append(affected, Head(names))
                        ELSE affected)

\* GenericBoneOperator.affect_bones
affect_bones(op) == AffectLoop(op, BoneNamesToAffect, Armature, <<>>)

Snapshot ==
    [edit_bones |-> edit_bones, parent |-> parent, use_connect |-> use_connect,
     selected |-> selected, active |-> active, mode |-> mode,
     constraints |-> constraints, drivers |-> drivers, fcurves |-> fcurves,
     collections |-> collections]

NoRemoval == [constraints |-> <<>>, drivers |-> <<>>]

NoRet == [op |-> "none", status |-> "none", affected |-> <<>>, count |-> 0]

\* The bones that are gone lose their constraint stacks and collections and
\* drop out of the selection.
AfterBones(arm) ==
    /\ edit_bones' = arm.bones
    /\ parent' = arm.parent
    /\ use_connect' = arm.connect
    /\ selected' = SelectIn(selected, arm.bones)
    /\ active' = IF active \in arm.bones THEN active ELSE None
    /\ constraints' = [b \in arm.bones |-> constraints[b]]
    /\ collections' = [b \in arm.bones |-> collections[b]]

\* execute of the three operators built on affect_bones: the mode is set back
\* and the count reported only when affect_bones returns.
AffectExecute(op) ==
    LET r == affect_bones(op)
    IN  /\ AfterBones(r.arm)
        /\ mode' = IF r.raised THEN "EDIT" ELSE mode
        /\ ret' = [op |-> op,
                   status |-> IF r.raised THEN "EXCEPTION" ELSE "FINISHED",
                   affected |-> r.affected,
                   count |-> IF r.raised THEN 0 ELSE Len(r.affected)]
        /\ pre' = Snapshot
        /\ UNCHANGED after_removal
        /\ UNCHANGED <<use_mirror_x, drivers, fcurves>>

\* POSE_OT_disconnect_bones.poll
DisconnectPoll ==
    /\ GenericPoll
    /\ \E i \in DOMAIN selected : use_connect[selected[i]]

\* POSE_OT_unparent_bones.poll
UnparentPoll ==
    /\ GenericPoll
    /\ \E i \in DOMAIN selected : parent[selected[i]] # None

Ready == ret.op = "none"

\* POSE_OT_disconnect_bones.execute
Disconnect == Ready /\ DisconnectPoll /\ AffectExecute("disconnect")

\* POSE_OT_unparent_bones.execute
Unparent == Ready /\ UnparentPoll /\ AffectExecute("unparent")

\* POSE_OT_delete_bones.execute
Delete == Ready /\ GenericPoll /\ AffectExecute("delete")

\* POSE_OT_parent_selected_to_active.poll (and parent_active_to_all_selected.poll)
ParentPoll ==
    /\ GenericPoll
    /\ Len(get_selected_bones(FALSE)) > 1
    /\ get_active_bone # None

\* One pass of the loop of parent_edit_bones. far: the child's head is away
\* from the parent's tail (bone positions are not part of the model).
ParentOneBone(arm, par, eb, far, connect_prop) ==
    LET a1 == IF arm.parent[par] = eb
              THEN SetParent([arm EXCEPT !.connect[par] = FALSE], par, arm.parent[eb])
              ELSE arm
        a2 == IF far THEN [a1 EXCEPT !.connect[eb] = FALSE] ELSE a1
        a3 == IF connect_prop THEN [a2 EXCEPT !.connect[eb] = TRUE] ELSE a2
    IN  SetParent(a3, eb, par)

\* POSE_OT_parent_selected_to_active.parent_edit_bones
RECURSIVE parent_edit_bones(_, _, _, _, _)
parent_edit_bones(arm, par, bones_to_parent, far, connect_prop) ==
    IF bones_to_parent = <<>> THEN arm
    ELSE parent_edit_bones(ParentOneBone(arm, par, Head(bones_to_parent), far, connect_prop),
                           par, Tail(bones_to_parent), far, connect_prop)

\* All orders in which a Python set of bones can be listed.
OrdersOf(S) == {s \in [1..Cardinality(S) -> S] : Range(s) = S}

\* execute, lines 267-271: the existing flipped counterparts of the bones.
FlippedBonesToParent(bones_to_parent) ==
    {flip_name(bones_to_parent[i]) : i \in DOMAIN bones_to_parent} \cap edit_bones

\* POSE_OT_parent_selected_to_active.execute
ParentSelectedToActive ==
    /\ Ready
    /\ ParentPoll
    /\ pre' = Snapshot
    /\ UNCHANGED after_removal
    /\ IF ExcludeActiveRaises
       THEN /\ mode' = "EDIT"
            /\ ret' = [op |-> "parent_selected_to_active", status |-> "EXCEPTION",
                       affected |-> <<>>, count |-> 0]
            /\ UNCHANGED <<edit_bones, parent, use_connect, selected, active,
                           use_mirror_x, constraints, drivers, fcurves, collections>>
       ELSE \E far \in BOOLEAN, connect_prop \in BOOLEAN :
            LET par == get_active_bone
                bones_to_parent == get_selected_bones(TRUE)
                a1 == parent_edit_bones(Armature, par, bones_to_parent, far, connect_prop)
                flipped_parent == flip_name(par)
            IN  \E order \in OrdersOf(FlippedBonesToParent(bones_to_parent)) :
                LET a2 == IF use_mirror_x /\ flipped_parent \in edit_bones
                          THEN parent_edit_bones(a1, flipped_parent, order, far, connect_prop)
                          ELSE a1
                IN  /\ parent' = a2.parent
                    /\ use_connect' = a2.connect
                    /\ ret' = [op |-> "parent_selected_to_active", status |-> "FINISHED",
                               affected |-> bones_to_parent,
                               count |-> Len(bones_to_parent)]
                    /\ UNCHANGED <<edit_bones, selected, active, use_mirror_x, mode,
                                   constraints, drivers, fcurves, collections>>

(***************************************************************************)
(* Constraints                                                             *)
(***************************************************************************)
Rig == "rig"

ArmatureTarget(bone) == [target |-> Rig, subtarget |-> bone]

Constraint(type, name, targets) == [type |-> type, name |-> name, targets |-> targets]

\* Index of the first constraint of the stack of the given type, 0 if none.
RECURSIVE FirstOfType(_, _, _)
FirstOfType(stack, type, i) ==
    IF i > Len(stack) THEN 0
    ELSE IF stack[i].type = type THEN i
    ELSE FirstOfType(stack, type, i + 1)

ConstraintNames(stack) == {stack[i].name : i \in DOMAIN stack}

\* The name the host gives a new constraint: the base name, numbered when taken.
UniqueName(base, taken) ==
    IF base \notin taken THEN base
    ELSE IF Append(base, ".001") \notin taken THEN Append(base, ".001")
    ELSE Append(base, ".002")

\* constraints.new(type='ARMATURE')
NewArmatureConstraint(stack) ==
    Append(stack, Constraint("ARMATURE", UniqueName(<<"Armature">>, ConstraintNames(stack)), <<>>))

\* execute, lines 207-210: one target per selected bone other than the active.
RECURSIVE AddTargets(_, _)
AddTargets(targets, bones) ==
    IF bones = <<>> THEN targets
    ELSE AddTargets(Append(targets, ArmatureTarget(Head(bones))), Tail(bones))

\* Mutation of FindOrNewArmatureConstraint: the reused constraint keeps its targets.
FindOrNewKeepingTargets(stack) ==
    LET i == FirstOfType(stack, "ARMATURE", 1)
    IN  IF i # 0
        THEN [stack |-> stack, at |-> i]
        ELSE [stack |-> NewArmatureConstraint(stack), at |-> Len(stack) + 1]

\* execute, lines 198-205: the first Armature constraint, emptied of its
\* targets, or a new one; the stack and the position of arm_con in it.
FindOrNewArmatureConstraint(stack) ==
    LET i == FirstOfType(stack, "ARMATURE", 1)
    IN  IF i # 0
        THEN [stack |-> [stack EXCEPT ![i].targets = <<>>], at |-> i]
        ELSE [stack |-> NewArmatureConstraint(stack), at |-> Len(stack) + 1]

\* POSE_OT_parent_active_to_all_selected.execute
ParentActiveToAllSelected ==
    /\ Ready
    /\ ParentPoll
    /\ pre' = Snapshot
    /\ UNCHANGED after_removal
    /\ LET arm == ClearParent(Armature, active)
           active_bone == get_active_bone
           found == FindOrNewArmatureConstraint(constraints[active_bone])
           raised == ExcludeActiveRaises
           targets == IF raised THEN found.stack[found.at].targets
                      ELSE AddTargets(found.stack[found.at].targets,
                                      get_selected_bones(TRUE))
       IN  /\ parent' = arm.parent
           /\ use_connect' = arm.connect
           /\ constraints' = [constraints EXCEPT
                                ![active_bone] = [found.stack EXCEPT ![found.at].targets = targets]]
           /\ ret' = [op |-> "parent_active_to_all_selected",
                      status |-> IF raised THEN "EXCEPTION" ELSE "FINISHED",
                      affected |-> targets,
                      count |-> Len(targets)]
    /\ UNCHANGED <<edit_bones, selected, active, use_mirror_x, mode, drivers,
                   fcurves, collections>>

(***************************************************************************)
(* Data paths.  A path is the sequence of the tokens of the string; a name *)
(* inside it contributes its own tokens, so that a name that is the        *)
(* beginning of another ("IK", "IK.001") is also a part of it here.        *)
(***************************************************************************)
StartsWith(s, prefix) ==
    Len(prefix) <= Len(s) /\ SubSeq(s, 1, Len(prefix)) = prefix

\* Python's `part in s`
Contains(s, part) ==
    \E i \in 0..(Len(s) - Len(part)) : SubSeq(s, i + 1, i + Len(part)) = part

TargetTokens == {"targets[0]", "targets[1]"}

\* The tokens that hold the character "]".
ClosesBracket(tok) == tok = "\"]" \/ tok \in TargetTokens

\* s.split("]", 1)[1]
RECURSIVE AfterFirstBracket(_)
AfterFirstBracket(s) ==
    IF s = <<>> THEN <<>>
    ELSE IF ClosesBracket(Head(s)) THEN Tail(s)
    ELSE AfterFirstBracket(Tail(s))

\* if s.startswith("."): s = s[1:]
StripDot(s) == IF s # <<>> /\ Head(s) = "." THEN Tail(s) ELSE s

\* 'pose.bones["<bone>"]'
BonePath(bone) == <<"pose.bones[\"">> \o bone \o <<"\"]">>

\* 'pose.bones["<bone>"].constraints["<con>"]'
ConstraintPath(bone, con) ==
    BonePath(bone) \o <<".", "constraints[\"">> \o con \o <<"\"]">>

\* "constraints[" in s
OnConstraint(s) == \E i \in DOMAIN s : s[i] = "constraints[\""

\* "targets[" in s
OnTarget(s) == \E i \in DOMAIN s : s[i] \in TargetTokens

\* int(s.split("targets[")[1][0])
TargetIndex(s) ==
    IF \E i \in DOMAIN s : s[i] = "targets[0]" THEN 0 ELSE 1

(***************************************************************************)
(* symmetrize.py: drivers                                                  *)
(***************************************************************************)
NoConstraint == Constraint("NONE", None, <<>>)

Driver(path, index, expression, variables) ==
    [data_path |-> path, array_index |-> index, expression |-> expression,
     variables |-> variables]

\* mirror_drivers, lines 267-293: the variables of the copy, bone targets flipped.
FlipVariables(variables) ==
    [i \in DOMAIN variables |->
        [variables[i] EXCEPT !.bone_target = flip_name(variables[i].bone_target)]]

\* mirror_drivers, lines 218-226: the three tests that skip a driver.
SkipsDriver(d, from_bone, from_constraint) ==
    \/ ~Contains(d.data_path, BonePath(from_bone))
    \/ OnConstraint(d.data_path) /\ from_constraint = NoConstraint
    \/ from_constraint # NoConstraint /\ ~Contains(d.data_path, from_constraint.name)

\* mirror_drivers, lines 235-261: where the copy of d is added, as the data
\* path and index of the new driver; all = TRUE when driver_remove and
\* driver_add are called without an index.
CopyPlace(d, to_bone, from_constraint, to_constraint) ==
    LET data_path_from_bone == StripDot(AfterFirstBracket(d.data_path))
        data_path_from_constraint == StripDot(AfterFirstBracket(data_path_from_bone))
    IN  IF OnConstraint(data_path_from_bone)
        THEN IF from_constraint.type = "ARMATURE" /\ OnTarget(data_path_from_constraint)
             THEN [path |-> ConstraintPath(to_bone, to_constraint.name)
                              \o <<".", IF TargetIndex(data_path_from_constraint) = 0
                                        THEN "targets[0]" ELSE "targets[1]",
                                   ".", "weight">>,
                   index |-> 0, all |-> TRUE,
                   raises |-> TargetIndex(data_path_from_constraint)
                                  >= Len(to_constraint.targets)]
             ELSE [path |-> ConstraintPath(to_bone, to_constraint.name)
                              \o <<".">> \o data_path_from_constraint,
                   index |-> 0, all |-> TRUE, raises |-> FALSE]
        ELSE [path |-> BonePath(to_bone) \o <<".">> \o data_path_from_bone,
              index |-> d.array_index, all |-> FALSE, raises |-> FALSE]

\* driver_remove(path[, index])
RECURSIVE DriverRemove(_, _)
DriverRemove(list, place) ==
    IF list = <<>> THEN <<>>
    ELSE IF /\ Head(list).data_path = place.path
            /\ (place.all \/ Head(list).array_index = place.index)
         THEN DriverRemove(Tail(list), place)
    ELSE <<Head(list)>> \o DriverRemove(Tail(list), place)

\* The copy of d that mirror_drivers builds at place.
MirroredDriver(d, place) ==
    Driver(place.path, place.index, d.expression, FlipVariables(d.variables))

\* The loop of mirror_drivers over armature.animation_data.drivers, which the
\* body changes while it is listed: live = FALSE lists the drivers as they
\* were when the loop began, live = TRUE reads position i of the list as it is.
RECURSIVE MirrorDriversLoop(_, _, _, _, _, _, _, _)
MirrorDriversLoop(list, listed, i, live, from_bone, to_bone, from_constraint, to_constraint) ==
    LET src == IF live THEN list ELSE listed
    IN  IF i > Len(src) THEN [drivers |-> list, raised |-> FALSE]
        ELSE IF SkipsDriver(src[i], from_bone, from_constraint)
             THEN MirrorDriversLoop(list, listed, i + 1, live, from_bone, to_bone,
                                    from_constraint, to_constraint)
        ELSE LET place == CopyPlace(src[i], to_bone, from_constraint, to_constraint)
             IN  IF place.raises THEN [drivers |-> list, raised |-> TRUE]
                 ELSE MirrorDriversLoop(
                          Append(DriverRemove(list, place), MirroredDriver(src[i], place)),
                          listed, i + 1, live, from_bone, to_bone,
                          from_constraint, to_constraint)

\* The ways the host can list a collection that changes under the loop.
Listings == {FALSE, TRUE}

\* mirror_drivers(armature, from_bone, to_bone, from_constraint, to_constraint)
mirror_drivers(list, live, from_bone, to_bone, from_constraint, to_constraint) ==
    MirrorDriversLoop(list, list, 1, live, from_bone, to_bone,
                      from_constraint, to_constraint)

(***************************************************************************)
(* symmetrize.py: constraints and the curves of an Action constraint       *)
(***************************************************************************)
\* Attributes the host does not let a script assign.
ReadOnlyAttributes == {"type", "targets", "keyframe_points", "array_index"}

\* utils.copy_attributes(from_thing, to_thing, skip): every attribute of
\* to_thing that can be written and is not skipped takes from_thing's value.
copy_attributes(from_thing, to_thing, skip) ==
    [a \in DOMAIN to_thing |->
        IF a \in skip \cup ReadOnlyAttributes \/ a \notin DOMAIN from_thing
        THEN to_thing[a] ELSE from_thing[a]]

\* Index of the constraint of the stack with this type and name, 0 if none.
RECURSIVE FindConstraint(_, _, _, _)
FindConstraint(stack, type, name, i) ==
    IF i > Len(stack) THEN 0
    ELSE IF stack[i].type = type /\ stack[i].name = name THEN i
    ELSE FindConstraint(stack, type, name, i + 1)

\* utils.find_or_create_constraint(pb, type, name): the constraint of that
\* type and name, or a new one at the end of the stack.
find_or_create_constraint(stack, type, name) ==
    LET i == FindConstraint(stack, type, name, 1)
    IN  IF i # 0 THEN [stack |-> stack, at |-> i]
        ELSE [stack |-> Append(stack, Constraint(type, name, <<>>)), at |-> Len(stack) + 1]

\* s.replace(old, new) on the tokens of s
RECURSIVE Replace(_, _, _)
Replace(s, old, new) ==
    IF s = <<>> \/ old = <<>> THEN s
    ELSE IF StartsWith(s, old)
         THEN new \o Replace(SubSeq(s, Len(old) + 1, Len(s)), old, new)
    ELSE <<Head(s)>> \o Replace(Tail(s), old, new)

FCurve(path, index, keyframes) ==
    [data_path |-> path, array_index |-> index, keyframe_points |-> keyframes]

Keyframe(co, handle_left, handle_right) ==
    [co |-> co, handle_left |-> handle_left, handle_right |-> handle_right]

\* action.fcurves.find(data_path, index=index): position of the first, 0 if none
RECURSIVE FindCurve(_, _, _, _)
FindCurve(curves, path, index, i) ==
    IF i > Len(curves) THEN 0
    ELSE IF curves[i].data_path = path /\ curves[i].array_index = index THEN i
    ELSE FindCurve(curves, path, index, i + 1)

RemoveAt(s, i) == SubSeq(s, 1, i - 1) \o SubSeq(s, i + 1, Len(s))

\* mirror_constraint, lines 151-157: find and remove until none is found.
RECURSIVE NukeOppositeCurves(_, _, _)
NukeOppositeCurves(curves, path, index) ==
    LET i == FindCurve(curves, path, index, 1)
    IN  IF i = 0 THEN curves
        ELSE NukeOppositeCurves(RemoveAt(curves, i), path, index)

\* Position at which keyframe_points.insert puts a keyframe of this frame.
RECURSIVE InsertAt(_, _, _)
InsertAt(keyframes, frame, i) ==
    IF i > Len(keyframes) \/ keyframes[i].co[1] >= frame THEN i
    ELSE InsertAt(keyframes, frame, i + 1)

\* "location" in data_path
OnLocation(path) == \E i \in DOMAIN path : path[i] = "location"

\* "rotation" in data_path
OnRotation(path) ==
    \E i \in DOMAIN path : path[i] \in {"rotation_euler", "rotation_quaternion"}

\* Mutation of FlipsValue: the first channel of a rotation is flipped instead
\* of the second and third.
FlipsValueFirstChannel(cur) ==
    \/ OnLocation(cur.data_path) /\ cur.array_index = 0
    \/ OnRotation(cur.data_path) /\ cur.array_index = 0

\* mirror_constraint, lines 170-172: X location, Y and Z rotation.
FlipsValue(cur) ==
    \/ OnLocation(cur.data_path) /\ cur.array_index = 0
    \/ OnRotation(cur.data_path) /\ cur.array_index \in {1, 2}

Negated(point) == <<point[1], point[2] * (-1)>>

\* mirror_constraint, lines 166-175: one keyframe of cur put on the opposite
\* curve: inserted at its frame and value, given kf's attributes, then flipped.
MirrorKeyframe(cur, keyframes, kf) ==
    LET i == InsertAt(keyframes, kf.co[1], 1)
        blank == Keyframe(<<kf.co[1], kf.co[2]>>, <<kf.co[1], kf.co[2]>>,
                          <<kf.co[1], kf.co[2]>>)
        copied == copy_attributes(kf, blank, {"data_path"})
        opp_kf == IF FlipsValue(cur)
                  THEN Keyframe(Negated(copied.co), Negated(copied.handle_left),
                                Negated(copied.handle_right))
                  ELSE copied
    IN  IF i <= Len(keyframes) /\ keyframes[i].co[1] = kf.co[1]
        THEN [keyframes EXCEPT ![i] = opp_kf]
        ELSE SubSeq(keyframes, 1, i - 1) \o <<opp_kf>> \o SubSeq(keyframes, i, Len(keyframes))

RECURSIVE MirrorKeyframes(_, _, _)
MirrorKeyframes(cur, keyframes, todo) ==
    IF todo = <<>> THEN keyframes
    ELSE MirrorKeyframes(cur, MirrorKeyframe(cur, keyframes, Head(todo)), Tail(todo))

\* mirror_constraint, lines 147-175: the body of the loop over the curves of
\* the bone: old opposite curves go, a new one takes the mirrored keyframes.
MirrorCurve(curves, cur, bone, opp_bone) ==
    LET opp_data_path == Replace(cur.data_path, bone, opp_bone)
        nuked == NukeOppositeCurves(curves, opp_data_path, cur.array_index)
        blank == FCurve(opp_data_path, cur.array_index, <<>>)
        opp_cur == copy_attributes(cur, blank, {"data_path", "group"})
    IN  Append(nuked, [opp_cur EXCEPT
                         !.keyframe_points = MirrorKeyframes(cur, <<>>, cur.keyframe_points)])

RECURSIVE MirrorCurves(_, _, _, _)
MirrorCurves(curves, todo, bone, opp_bone) ==
    IF todo = <<>> THEN curves
    ELSE MirrorCurves(MirrorCurve(curves, Head(todo), bone, opp_bone), Tail(todo),
                      bone, opp_bone)

\* mirror_constraint, lines 143-146: the curves with the bone's name in the path
RECURSIVE CurvesOfBone(_, _)
CurvesOfBone(curves, bone) ==
    IF curves = <<>> THEN <<>>
    ELSE IF Contains(Head(curves).data_path, bone)
         THEN <<Head(curves)>> \o CurvesOfBone(Tail(curves), bone)
    ELSE CurvesOfBone(Tail(curves), bone)

\* mirror_constraint, lines 192-196: the targets of an Armature constraint
RECURSIVE MirrorTargets(_, _)
MirrorTargets(targets, from_targets) ==
    IF from_targets = <<>> THEN targets
    ELSE MirrorTargets(
             Append(targets, [target |-> Head(from_targets).target,
                              subtarget |-> flip_name(Head(from_targets).subtarget)]),
             Tail(from_targets))

\* The rig as mirror_constraint sees it.
RigState(cons, drvs, curves) ==
    [constraints |-> cons, drivers |-> drvs, fcurves |-> curves, raised |-> FALSE]

\* mirror_constraint(armature, pbone, con); live is how the loop of
\* mirror_drivers lists the drivers.  The rigs drawn here hold no Limit
\* Location and no Damped Track constraint (lines 177-189).
mirror_constraint(rig, live, pbone, con) ==
    LET flipped_con_name == flip_name(con.name)
        flipped_bone_name == flip_name(pbone)
        opp_pb == IF flipped_bone_name \in DOMAIN rig.constraints
                  THEN flipped_bone_name ELSE None
    IN  IF pbone = opp_pb THEN rig
        ELSE IF opp_pb = None THEN [rig EXCEPT !.raised = TRUE]
        ELSE
        LET found == find_or_create_constraint(rig.constraints[opp_pb], con.type, con.name)
            copied == copy_attributes(con, found.stack[found.at], {"name", "subtarget"})
            others == ConstraintNames(RemoveAt(found.stack, found.at))
            renamed == [copied EXCEPT !.name = UniqueName(flipped_con_name, others)]
            opp_c == IF con.type = "ARMATURE"
                     THEN [renamed EXCEPT !.targets = MirrorTargets(renamed.targets, con.targets)]
                     ELSE renamed
            curves == IF con.type = "ACTION"
                      THEN MirrorCurves(rig.fcurves, CurvesOfBone(rig.fcurves, pbone),
                                        pbone, opp_pb)
                      ELSE rig.fcurves
            drv == mirror_drivers(rig.drivers, live, pbone, opp_pb, con, opp_c)
        IN  [constraints |-> [rig.constraints EXCEPT
                                ![opp_pb] = [found.stack EXCEPT ![found.at] = opp_c]],
             drivers |-> drv.drivers,
             fcurves |-> curves,
             raised |-> drv.raised]

(***************************************************************************)
(* Rigs                                                                    *)
(***************************************************************************)
Hierarchies(bs) ==
    {par \in [bs -> bs \cup {None}] : Acyclic(bs, par)}

Connections(bs, par) ==
    {c \in [bs -> BOOLEAN] : \A b \in bs : c[b] => par[b] # None}

InitBones ==
    /\ edit_bones \in SUBSET BoneNames
    /\ parent \in Hierarchies(edit_bones)
    /\ use_connect \in Connections(edit_bones, parent)
    /\ selected \in SubSeqsOf(SelectIn(BoneOrder, edit_bones))
    /\ active \in edit_bones \cup {None}
    /\ use_mirror_x \in BOOLEAN
    /\ mode \in {"POSE", "EDIT"}
    /\ constraints = [b \in edit_bones |-> <<>>]
    /\ drivers = <<>>
    /\ fcurves = <<>>
    /\ collections = [b \in edit_bones |-> {}]
    /\ ret = NoRet
    /\ pre = Snapshot
    /\ after_removal = NoRemoval

NextBones == Disconnect \/ Unparent \/ Delete \/ ParentSelectedToActive

SpecBones == InitBones /\ [][NextBones]_vars

SpecUnparent == InitBones /\ [][Unparent]_vars

\* Constraint stacks a bone can carry when the operator is invoked.
StackKinds ==
    {Constraint("ARMATURE", <<"Armature">>, <<ArmatureTarget(BoneOrder[1])>>),
     Constraint("ARMATURE", <<"Armature", ".001">>, <<ArmatureTarget(<<"Gone">>)>>),
     Constraint("COPY_ROTATION", <<"Copy Rotation">>, <<>>)}

Stacks ==
    {st \in UNION {[1..n -> StackKinds] : n \in 0..Cardinality(StackKinds)} :
        \A i, j \in DOMAIN st : i # j => st[i] # st[j]}

InitArmature ==
    /\ edit_bones = BoneNames
    /\ parent \in Hierarchies(edit_bones)
    /\ use_connect = [b \in edit_bones |-> FALSE]
    /\ selected \in SubSeqsOf(BoneOrder)
    /\ active \in edit_bones \cup {None}
    /\ use_mirror_x = FALSE
    /\ mode \in {"POSE", "EDIT"}
    /\ \E st \in Stacks :
          constraints = [b \in edit_bones |-> IF b = active THEN st ELSE <<>>]
    /\ drivers = <<>>
    /\ fcurves = <<>>
    /\ collections = [b \in edit_bones |-> {}]
    /\ ret = NoRet
    /\ pre = Snapshot
    /\ after_removal = NoRemoval

SpecArmature == InitArmature /\ [][ParentActiveToAllSelected]_vars

(***************************************************************************)
(* Claims about bone_parenting_ops.py                                      *)
(***************************************************************************)
Finished(op) == ret.op = op /\ ret.status = "FINISHED"

\* The names affect_bones works on: the selection and, with X-mirror, the
\* existing flipped counterparts.
PreAffected ==
    Range(pre.selected) \cup
    (IF use_mirror_x
     THEN {flip_name(b) : b \in Range(pre.selected)} \cap pre.edit_bones
     ELSE {})

\* C3: after Parent Selected Bones To Active finishes, every selected bone
\* other than the active bone has the active bone as its parent, with X-mirror
\* off and on, and the reported count is the number of selected non-active bones.
C3_SelectedParentedToActive ==
    Finished("parent_selected_to_active") =>
        /\ \A b \in Range(selected) \ {active} : parent[b] = active
        /\ ret.count = Cardinality(Range(selected) \ {active})

\* C4: Delete Selected Bones finishes for every selection poll accepts, no
\* selected bone exists afterwards, with X-mirror the existing counterparts are
\* removed too, and the returned list names each removed bone exactly once.
C4_DeleteRemovesSelected ==
    ret.op = "delete" =>
        /\ ret.status = "FINISHED"
        /\ edit_bones = pre.edit_bones \ PreAffected
        /\ Range(ret.affected) = PreAffected
        /\ \A b \in PreAffected : Count(ret.affected, b) = 1
        /\ ret.count = Cardinality(PreAffected)

\* C5: after Parent Active to All Selected finishes, the active bone has no
\* parent and carries an Armature constraint whose targets are exactly the
\* selected bones other than the active one (one target each, pointing at the
\* rig); an existing first Armature constraint is reused in place, otherwise
\* exactly one new Armature constraint is added.
C5_ArmatureConstraintTargets ==
    Finished("parent_active_to_all_selected") =>
        LET old == pre.constraints[active]
            new == constraints[active]
            i == FirstOfType(old, "ARMATURE", 1)
            at == IF i # 0 THEN i ELSE Len(old) + 1
            others == Range(selected) \ {active}
        IN  /\ parent[active] = None
            /\ Len(new) = (IF i # 0 THEN Len(old) ELSE Len(old) + 1)
            /\ \A j \in DOMAIN old : j # at => new[j] = old[j]
            /\ new[at].type = "ARMATURE"
            /\ i # 0 => new[at].name = old[at].name
            /\ Len(new[at].targets) = Cardinality(others)
            /\ {new[at].targets[k] : k \in DOMAIN new[at].targets}
                   = {ArmatureTarget(b) : b \in others}
            /\ \A b \in edit_bones \ {active} : constraints[b] = pre.constraints[b]

\* C5 witness: a second-place Armature constraint with a left-over target is
\* reused for two selected bones.
C5_Witness ==
    /\ Finished("parent_active_to_all_selected")
    /\ Len(pre.constraints[active]) >= 2
    /\ pre.constraints[active][1].type = "COPY_ROTATION"
    /\ pre.constraints[active][2].type = "ARMATURE"
    /\ pre.constraints[active][2].targets # <<>>
    /\ pre.parent[active] # None
    /\ ret.count = 2

\* C6: after Unparent Selected Bones finishes, every selected bone (and with
\* X-mirror every existing flipped counterpart) has no parent, and the returned
\* list holds exactly the bones that had a parent before, each once, so the
\* count is the number of bones changed.
C6_UnparentClearsAndCounts ==
    ret.op = "unparent" =>
        LET had_parent == {b \in PreAffected : pre.parent[b] # None}
        IN  /\ ret.status = "FINISHED"
            /\ \A b \in PreAffected : parent[b] = None
            /\ Range(ret.affected) = had_parent
            /\ \A b \in had_parent : Count(ret.affected, b) = 1
            /\ ret.count = Cardinality(had_parent)
            /\ had_parent = {b \in pre.edit_bones : parent[b] # pre.parent[b]}

\* C6 witness: with X-mirror a bone and its counterpart are both selected, both
\* had a parent, and a parentless bone is selected with them.
C6_Witness ==
    /\ Finished("unparent")
    /\ use_mirror_x
    /\ \E b \in Range(pre.selected) :
          /\ flip_name(b) # b
          /\ flip_name(b) \in Range(pre.selected)
          /\ pre.parent[b] # None
          /\ pre.parent[flip_name(b)] # None
    /\ \E b \in Range(pre.selected) : pre.parent[b] = None
    /\ ret.count = 2

\* C7: after Disconnect Selected Bones finishes no selected bone is connected
\* and each selected bone keeps the parent it had; the operator is offered only
\* when a selected bone is connected, and the count is the number of bones it
\* disconnected.
C7_DisconnectKeepsParent ==
    ret.op = "disconnect" =>
        /\ ret.status = "FINISHED"
        /\ \E b \in Range(pre.selected) : pre.use_connect[b]
        /\ \A b \in Range(pre.selected) : ~use_connect[b] /\ parent[b] = pre.parent[b]
        /\ ret.count = Cardinality({b \in PreAffected : pre.use_connect[b]})

(***************************************************************************)
(* mirror_drivers on its own                                               *)
(***************************************************************************)
IK == Constraint("COPY_ROTATION", <<"IK">>, <<>>)

IK001 == Constraint("COPY_ROTATION", <<"IK", ".001">>, <<>>)

ArmatureOf(bone) == Constraint("ARMATURE", <<"Armature">>, <<ArmatureTarget(bone)>>)

Variable(bone) == [name |-> "var", bone_target |-> bone]

\* The drivers a rig of Hand.L, Hand.R and Spine can hold, destination first.
AllDrivers ==
    << Driver(ConstraintPath(HandR, <<"IK">>) \o <<".", "influence">>, 0, "old", <<>>),
       Driver(BonePath(HandR) \o <<".", "location">>, 0, "old", <<>>),
       Driver(BonePath(HandL) \o <<".", "location">>, 0, "loc", <<Variable(ArmL)>>),
       Driver(ConstraintPath(HandL, <<"IK">>) \o <<".", "influence">>, 0, "ik",
              <<Variable(ArmL)>>),
       Driver(ConstraintPath(HandL, <<"IK", ".001">>) \o <<".", "influence">>, 0, "ik001",
              <<Variable(Spine)>>),
       Driver(ConstraintPath(HandL, <<"Armature">>) \o <<".", "targets[0]", ".", "weight">>,
              0, "weight", <<Variable(ArmR)>>),
       Driver(ConstraintPath(Spine, <<"IK">>) \o <<".", "influence">>, 0, "spine", <<>>) >>

DriverBones == {HandL, HandR, Spine}

InitDrivers ==
    /\ edit_bones = DriverBones
    /\ parent = [b \in edit_bones |-> None]
    /\ use_connect = [b \in edit_bones |-> FALSE]
    /\ selected = <<>>
    /\ active = None
    /\ use_mirror_x = FALSE
    /\ mode = "POSE"
    /\ constraints = [b \in edit_bones |->
                        IF b = Spine THEN <<IK>> ELSE <<IK, IK001, ArmatureOf(Spine)>>]
    /\ drivers \in SubSeqsOf(AllDrivers)
    /\ fcurves = <<>>
    /\ collections = [b \in edit_bones |-> {}]
    /\ ret = NoRet
    /\ pre = Snapshot
    /\ after_removal = NoRemoval

\* mirror_drivers(rig, Hand.L, Hand.R) and
\* mirror_drivers(rig, Hand.L, Hand.R, con, the constraint of Hand.R of that name)
MirrorDrivers ==
    /\ Ready
    /\ pre' = Snapshot
    /\ UNCHANGED after_removal
    /\ \E live \in Listings, k \in 0..Len(constraints[HandL]) :
          LET from_constraint == IF k = 0 THEN NoConstraint ELSE constraints[HandL][k]
              to_constraint == IF k = 0 THEN NoConstraint ELSE constraints[HandR][k]
              r == mirror_drivers(drivers, live, HandL, HandR, from_constraint, to_constraint)
          IN  /\ drivers' = r.drivers
              /\ ret' = [op |-> "mirror_drivers",
                         status |-> IF r.raised THEN "EXCEPTION" ELSE "FINISHED",
                         affected |-> <<from_constraint.name>>,
                         count |-> Len(r.drivers) - Len(drivers)]
    /\ UNCHANGED <<edit_bones, parent, use_connect, selected, active, use_mirror_x,
                   mode, constraints, fcurves, collections>>

SpecDrivers == InitDrivers /\ [][MirrorDrivers]_vars

\* The drivers of the source that a call of mirror_drivers is to copy: those
\* on the properties of Hand.L itself, or those of the one constraint con.
OwnDrivers(con) ==
    {d \in Range(pre.drivers) :
        IF con = None
        THEN StartsWith(d.data_path, BonePath(HandL) \o <<".">>)
                 /\ ~OnConstraint(d.data_path)
        ELSE StartsWith(d.data_path, ConstraintPath(HandL, con) \o <<".">>)}

\* The copy of d on Hand.R: same property, expression, variables flipped.
IsCopyOf(x, d, con) ==
    /\ x.expression = d.expression
    /\ x.variables = FlipVariables(d.variables)
    /\ x.data_path =
          (IF con = None
           THEN BonePath(HandR) \o SubSeq(d.data_path, Len(BonePath(HandL)) + 1, Len(d.data_path))
           ELSE ConstraintPath(HandR, flip_name(con))
                  \o SubSeq(d.data_path, Len(ConstraintPath(HandL, con)) + 1, Len(d.data_path)))

\* C9: mirror_drivers copies only drivers that belong to its source: every
\* driver it adds is the copy (same expression, variables with flipped bone
\* targets) of a driver of the source bone itself, or of the one constraint it
\* was given, never of another constraint or bone; the drivers of the source
\* are left as they were.
C9_CopiesOnlyOwnDrivers ==
    Finished("mirror_drivers") =>
        /\ \A x \in Range(drivers) \ Range(pre.drivers) :
              \E d \in OwnDrivers(ret.affected[1]) : IsCopyOf(x, d, ret.affected[1])
        /\ \A d \in Range(pre.drivers) :
              Contains(d.data_path, BonePath(HandL)) => d \in Range(drivers)

(***************************************************************************)
(* mirror_constraint on an Action constraint                               *)
(***************************************************************************)
ActionCon == Constraint("ACTION", <<"Action">>, <<>>)

Channels ==
    {<<"location", 0>>, <<"location", 1>>, <<"rotation_euler", 0>>,
     <<"rotation_euler", 1>>, <<"rotation_euler", 2>>, <<"scale", 0>>}

\* The channels of Hand.R that hold curves before the call.
OppositeChannels == {<<"location", 0>>, <<"rotation_euler", 1>>}

KeysOne == << Keyframe(<<1, 1>>, <<0, 2>>, <<2, 3>>) >>

KeysTwo == << Keyframe(<<1, -1>>, <<0, 0>>, <<2, 2>>),
              Keyframe(<<3, 2>>, <<2, 1>>, <<4, 3>>) >>

ChannelPath(bone, ch) == BonePath(bone) \o <<".", ch[1]>>

\* Curves of the source bone Hand.L, and curves already on Hand.R.
CurveUniverse ==
    {FCurve(ChannelPath(HandL, ch), ch[2], keys) : ch \in Channels, keys \in {KeysOne, KeysTwo}}
    \cup {FCurve(ChannelPath(HandR, ch), ch[2], KeysOne) : ch \in OppositeChannels}

IsSourceCurve(cur) == StartsWith(cur.data_path, BonePath(HandL) \o <<".">>)

\* fcurves.new keeps one curve per channel of the source bone; the loop at
\* lines 151-157 is written for any number of opposite curves of a channel.
CurveLists ==
    {cs \in UNION {[1..n -> CurveUniverse] : n \in 0..MaxCurves} :
        \A i, j \in DOMAIN cs :
            (/\ i # j
             /\ IsSourceCurve(cs[i])
             /\ cs[i].data_path = cs[j].data_path)
            => cs[i].array_index # cs[j].array_index}

InitCurves ==
    /\ edit_bones = DriverBones
    /\ parent = [b \in edit_bones |-> None]
    /\ use_connect = [b \in edit_bones |-> FALSE]
    /\ selected = <<>>
    /\ active = None
    /\ use_mirror_x = FALSE
    /\ mode = "POSE"
    /\ constraints = [b \in edit_bones |-> IF b = HandL THEN <<ActionCon>> ELSE <<>>]
    /\ drivers = <<>>
    /\ fcurves \in CurveLists
    /\ collections = [b \in edit_bones |-> {}]
    /\ ret = NoRet
    /\ pre = Snapshot
    /\ after_removal = NoRemoval

\* mirror_constraint(rig, Hand.L, con) for a constraint con of Hand.L
MirrorConstraint ==
    /\ Ready
    /\ pre' = Snapshot
    /\ UNCHANGED after_removal
    /\ \E live \in Listings, k \in DOMAIN constraints[HandL] :
          LET r == mirror_constraint(RigState(constraints, drivers, fcurves), live,
                                     HandL, constraints[HandL][k])
          IN  /\ constraints' = r.constraints
              /\ drivers' = r.drivers
              /\ fcurves' = r.fcurves
              /\ ret' = [op |-> "mirror_constraint",
                         status |-> IF r.raised THEN "EXCEPTION" ELSE "FINISHED",
                         affected |-> <<constraints[HandL][k].name>>,
                         count |-> Len(r.fcurves)]
    /\ UNCHANGED <<edit_bones, parent, use_connect, selected, active, use_mirror_x,
                   mode, collections>>

SpecCurves == InitCurves /\ [][MirrorConstraint]_vars

\* The curves of the list that satisfy the test, in order.
RECURSIVE SourceCurves(_)
SourceCurves(curves) ==
    IF curves = <<>> THEN <<>>
    ELSE IF IsSourceCurve(Head(curves)) THEN <<Head(curves)>> \o SourceCurves(Tail(curves))
    ELSE SourceCurves(Tail(curves))

\* What the claim says of one keyframe: same frame; value and handle values
\* negated for X location and Y/Z rotation, equal otherwise.
MirrorsKeyframe(opp_kf, kf, prop, index) ==
    LET sign == IF \/ prop = "location" /\ index = 0
                   \/ prop = "rotation_euler" /\ index \in {1, 2}
                THEN -1 ELSE 1
    IN  /\ opp_kf.co[1] = kf.co[1]
        /\ opp_kf.co[2] = sign * kf.co[2]
        /\ opp_kf.handle_left[2] = sign * kf.handle_left[2]
        /\ opp_kf.handle_right[2] = sign * kf.handle_right[2]

SymmetrizePoll ==
    /\ mode = "POSE"
    /\ \E i \in DOMAIN selected : selected[i] # flip_name(selected[i])

\* get_symmetrize_bone_mapping: the loop over the selected pose bones.  The
\* return of line 58 is inside the loop, and a loop that ends without it
\* leaves the function without a return value (None).
RECURSIVE BoneMappingLoop(_, _)
BoneMappingLoop(todo, bone_map) ==
    IF todo = <<>> THEN [kind |-> "None", bone_map |-> <<>>]
    ELSE LET pb == Head(todo)
             flipped_name == flip_name(pb)
             opp_pb == IF flipped_name \in edit_bones THEN flipped_name ELSE None
         IN  IF flipped_name = pb THEN BoneMappingLoop(Tail(todo), bone_map)
             ELSE IF opp_pb # None /\ opp_pb \in Range(selected)
                  THEN [kind |-> "CANCELLED", bone_map |-> <<>>]
             ELSE IF opp_pb = None THEN BoneMappingLoop(Tail(todo), bone_map)
             ELSE [kind |-> "dict", bone_map |-> Append(bone_map, <<pb, opp_pb>>)]

get_symmetrize_bone_mapping == BoneMappingLoop(selected, <<>>)

\* remove_constraint_with_drivers(pbone, con), con the i-th of the stack
remove_constraint_with_drivers(rig, pbone, i) ==
    LET con == rig.constraints[pbone][i]
        prefix == ConstraintPath(pbone, con.name) \o <<".">>
        keep == {d \in Range(rig.drivers) : ~StartsWith(d.data_path, prefix)}
    IN  [rig EXCEPT !.drivers = SelectIn(rig.drivers, keep),
                    !.constraints[pbone] = RemoveAt(rig.constraints[pbone], i)]

\* execute, lines 68-69: the loop over to_pb.constraints, which loses a
\* constraint at every pass.  live = FALSE: every constraint that was on the
\* bone is visited (n counts those left to visit, always the first of the
\* stack); live = TRUE: pass i takes the constraint at place i of the stack
\* as it is by then.
RECURSIVE RemoveConstraintsLoop(_, _, _, _, _)
RemoveConstraintsLoop(rig, to_pb, live, i, n) ==
    IF live
    THEN IF i > Len(rig.constraints[to_pb]) THEN rig
         ELSE RemoveConstraintsLoop(remove_constraint_with_drivers(rig, to_pb, i),
                                    to_pb, live, i + 1, n)
    ELSE IF n = 0 THEN rig
         ELSE RemoveConstraintsLoop(remove_constraint_with_drivers(rig, to_pb, 1),
                                    to_pb, live, i, n - 1)

\* execute, lines 67-69
RECURSIVE RemoveOppositeConstraints(_, _, _)
RemoveOppositeConstraints(rig, bone_map, live) ==
    IF bone_map = <<>> THEN rig
    ELSE LET to_pb == Head(bone_map)[2]
         IN  RemoveOppositeConstraints(
                 RemoveConstraintsLoop(rig, to_pb, live, 1, Len(rig.constraints[to_pb])),
                 Tail(bone_map), live)

\* The parent the host's armature.symmetrize gives the opposite of a bone.
MirroredParent(arm, b) ==
    IF arm.parent[b] = None THEN None
    ELSE IF flip_name(arm.parent[b]) \in arm.bones THEN flip_name(arm.parent[b])
    ELSE arm.parent[b]

\* bpy.ops.armature.symmetrize() (line 76) for one selected edit bone: the
\* bone of the flipped name exists afterwards, under the mirrored parent.
SymmetrizeBone(arm, b) ==
    LET opp == flip_name(b)
        bones == arm.bones \cup {opp}
        made == [bones   |-> bones,
                 parent  |-> [x \in bones |-> IF x \in arm.bones THEN arm.parent[x] ELSE None],
                 connect |-> [x \in bones |-> IF x \in arm.bones THEN arm.connect[x] ELSE FALSE]]
    IN  IF opp = b THEN arm
        ELSE SetParent(made, opp, MirroredParent(made, b))

RECURSIVE HostSymmetrize(_, _)
HostSymmetrize(arm, todo) ==
    IF todo = <<>> THEN arm
    ELSE HostSymmetrize(SymmetrizeBone(arm, Head(todo)), Tail(todo))

\* The bone collections of the armature (rig.data.collections).
RigCollections ==
    {<<"Fingers", ".L">>, <<"Fingers", ".R">>, <<"Extra", ".L">>, <<"Deform">>}

\* execute, lines 88-96: the collections of to_pb after the mirroring
MirroredCollections(from_collections) ==
    {IF flip_name(c) \in RigCollections THEN flip_name(c) ELSE c : c \in from_collections}

\* execute, lines 84-85: mirror_constraint for every constraint of from_pb
RECURSIVE MirrorConstraints(_, _, _, _)
MirrorConstraints(rig, live, from_pb, todo) ==
    IF todo = <<>> \/ rig.raised THEN rig
    ELSE MirrorConstraints(mirror_constraint(rig, live, from_pb, Head(todo)), live,
                           from_pb, Tail(todo))

\* execute, lines 79-96: one pass of the loop over bone_map.items()
MirrorPair(st, live, from_pb, to_pb) ==
    LET own == mirror_drivers(st.rig.drivers, live, from_pb, to_pb, NoConstraint, NoConstraint)
        r1 == [st.rig EXCEPT !.drivers = own.drivers, !.raised = own.raised]
        r2 == MirrorConstraints(r1, live, from_pb, st.rig.constraints[from_pb])
    IN  IF r2.raised THEN [st EXCEPT !.rig = r2]
        ELSE [rig |-> r2,
              collections |-> [st.collections EXCEPT
                                 ![to_pb] = MirroredCollections(st.collections[from_pb])]]

RECURSIVE MirrorPairs(_, _, _)
MirrorPairs(st, live, bone_map) ==
    IF bone_map = <<>> \/ st.rig.raised THEN st
    ELSE MirrorPairs(MirrorPair(st, live, Head(bone_map)[1], Head(bone_map)[2]),
                     live, Tail(bone_map))

SymmetrizeRet(status, bone_map) ==
    [op |-> "symmetrize", status |-> status, affected |-> bone_map, count |-> Len(bone_map)]

\* POSE_OT_Symmetrize.execute
Symmetrize ==
    /\ Ready
    /\ SymmetrizePoll
    /\ pre' = Snapshot
    /\ LET m == get_symmetrize_bone_mapping
       IN  IF m.kind # "dict"
           THEN /\ ret' = SymmetrizeRet(IF m.kind = "CANCELLED" THEN "CANCELLED"
                                        ELSE "EXCEPTION", <<>>)
                /\ UNCHANGED <<edit_bones, parent, use_connect, selected, active,
                               use_mirror_x, mode, constraints, drivers, fcurves,
                               collections, after_removal>>
           ELSE \E live \in Listings :
                LET removed == RemoveOppositeConstraints(
                                   RigState(constraints, drivers, fcurves), m.bone_map, live)
                    arm == HostSymmetrize(Armature, selected)
                    grown == [removed EXCEPT
                                !.constraints = [b \in arm.bones |->
                                    IF b \in edit_bones THEN removed.constraints[b] ELSE <<>>]]
                    done == MirrorPairs(
                                [rig |-> grown,
                                 collections |-> [b \in arm.bones |->
                                    IF b \in edit_bones THEN collections[b] ELSE {}]],
                                live, m.bone_map)
                IN  /\ after_removal' = [constraints |-> removed.constraints,
                                         drivers |-> removed.drivers]
                    /\ edit_bones' = arm.bones
                    /\ parent' = arm.parent
                    /\ use_connect' = arm.connect
                    /\ constraints' = done.rig.constraints
                    /\ drivers' = done.rig.drivers
                    /\ fcurves' = done.rig.fcurves
                    /\ collections' = done.collections
                    /\ ret' = SymmetrizeRet(IF done.rig.raised THEN "EXCEPTION"
                                            ELSE "FINISHED", m.bone_map)
                    /\ UNCHANGED <<selected, active, use_mirror_x, mode>>

(***************************************************************************)
(* Rigs for Symmetrize                                                     *)
(***************************************************************************)
SymmetrizeOrder == SubSeq(<<HandL, HandR, ArmL, ArmR, Spine>>, 1, Min(MaxSymBones, 5))

\* The selections of a set of bones, in every order.
Selections(bs) == UNION {OrdersOf(T) : T \in SUBSET bs}

SymmetrizeStacks == {<<>>, <<IK, IK001>>, <<ArmatureOf(ArmL), ActionCon>>}

\* The side of a bone: what flip_name swaps.
Side(b) == IF flip_name(b) = b THEN "" ELSE b[Len(b)]

SymmetrizeDrivers == <<AllDrivers[1], AllDrivers[4], AllDrivers[5]>>

SymmetrizeCurves == <<FCurve(ChannelPath(HandL, <<"location">>), 0, KeysTwo)>>

InitSymmetrize ==
    /\ edit_bones \in SUBSET Range(SymmetrizeOrder)
    /\ parent = [b \in edit_bones |-> None]
    /\ use_connect = [b \in edit_bones |-> FALSE]
    /\ selected \in Selections(edit_bones)
    /\ active = None
    /\ use_mirror_x = FALSE
    /\ mode = "POSE"
    /\ \E left \in SymmetrizeStacks, right \in SymmetrizeStacks :
          constraints = [b \in edit_bones |->
                           IF Side(b) = ".L" THEN left
                           ELSE IF Side(b) = ".R" THEN right ELSE <<>>]
    /\ drivers \in SubSeqsOf(SymmetrizeDrivers)
    /\ fcurves = SymmetrizeCurves
    /\ \E in_collections \in BOOLEAN :
          collections = [b \in edit_bones |->
                           IF ~in_collections THEN {}
                           ELSE IF Side(b) = ".L" THEN {<<"Fingers", ".L">>, <<"Extra", ".L">>}
                           ELSE IF Side(b) = ".R" THEN {<<"Fingers", ".R">>, <<"Deform">>}
                           ELSE {<<"Deform">>}]
    /\ ret = NoRet
    /\ pre = Snapshot
    /\ after_removal = NoRemoval

SpecSymmetrize == InitSymmetrize /\ [][Symmetrize]_vars

(***************************************************************************)
(* Claims about POSE_OT_Symmetrize                                         *)
(***************************************************************************)
\* A bone of the selection whose opposite is selected too.
SelectedOnBothSides ==
    \E b \in Range(pre.selected) : flip_name(b) # b /\ flip_name(b) \in Range(pre.selected)

\* The selected bones the mapping is to hold: flippable, opposite existing and
\* not selected.
Mappable ==
    {b \in Range(pre.selected) :
        /\ flip_name(b) # b
        /\ flip_name(b) \in pre.edit_bones
        /\ flip_name(b) \notin Range(pre.selected)}

\* C1: Symmetrize mirrors ALL selected bones: when no bone is selected on both
\* sides, every selected bone whose flipped name names an existing, unselected
\* bone is a key of the bone mapping, its constraints and bone collections are
\* mirrored onto the opposite bone, and execute returns FINISHED.
C1_AllSelectedMirrored ==
    (ret.op = "symmetrize" /\ ~SelectedOnBothSides /\ Mappable # {}) =>
        /\ ret.status = "FINISHED"
        /\ \A b \in Mappable :
              /\ <<b, flip_name(b)>> \in Range(ret.affected)
              /\ collections[flip_name(b)] = MirroredCollections(pre.collections[b])
              /\ \A i \in DOMAIN pre.constraints[b] :
                    \E j \in DOMAIN constraints[flip_name(b)] :
                        /\ constraints[flip_name(b)][j].type = pre.constraints[b][i].type
                        /\ constraints[flip_name(b)][j].name
                               = flip_name(pre.constraints[b][i].name)

\* C2: when a selected bone has its opposite selected too, Symmetrize returns
\* CANCELLED and leaves the rig as it was, wherever the pair stands in the
\* selection and whatever else is selected.
C2_ConflictCancels ==
    (ret.op = "symmetrize" /\ SelectedOnBothSides) =>
        /\ ret.status = "CANCELLED"
        /\ edit_bones = pre.edit_bones
        /\ constraints = pre.constraints
        /\ drivers = pre.drivers
        /\ fcurves = pre.fcurves
        /\ collections = pre.collections
        /\ mode = pre.mode

====
